---------------------------- MODULE Spec2Model ----------------------------
(***************************************************************************)
(* A model of the REST API tester (src/app.py): one Streamlit script that  *)
(* is re-run from the top on every user event.  The only state that lives  *)
(* across runs is st.session_state.presets; everything else is the widget  *)
(* state of the run and what the run dispatched and rendered.              *)
(*                                                                         *)
(* Python values.  A str is a sequence of symbols (a symbol is a TLA+      *)
(* string: one character such as " ", or one lexeme such as "http" or      *)
(* "null" that no operation of the script ever splits).  An Optional       *)
(* value, and every value produced by json.loads, is a tagged record:      *)
(* None, Str(s), Bool(b), Num(n), List(items), Obj(d).  A Python dict with *)
(* str keys is a TLA+ function whose domain is a set of strs.              *)
(***************************************************************************)
EXTENDS Integers, Sequences, FiniteSets, TLC

VARIABLES
    presets,        \* st.session_state.presets: list of RequestPreset
    preset_names,   \* the names listed by the "Load preset" select box
    new_name,       \* sidebar text input "New preset name"
    save_clicked,   \* st.button("Save preset") of this run
    submitted,      \* st.form_submit_button("Send request") of this run
    method, url, timeout_s, verify_ssl,
    params_rows, headers_rows,
    body_mode, body_raw,
    auth_type, bearer_token, basic_user, basic_pass,
    network,        \* what the HTTP client will answer to the next call
    headers,        \* the script's local dict `headers`
    requests_auth,  \* the script's local `requests_auth`
    sent,           \* the calls of requests.request made by this run
    rendered,       \* the elements this run put on the page, in order
    outcome,        \* how the run ended: completed, stopped, NameError
    pc              \* "run": an event is pending; "done": the script ended

vars == <<presets, preset_names, new_name, save_clicked, submitted, method,
          url, timeout_s, verify_ssl, params_rows, headers_rows, body_mode, body_raw,
          auth_type, bearer_token, basic_user, basic_pass, network, headers,
          requests_auth, sent, rendered, outcome, pc>>

-----------------------------------------------------------------------------
(* Bounds of the model.                                                    *)

\* Longest list of key/value rows given to kv_rows_to_dict.
MaxRows == 2
\* Longest response body (in symbols) given to the body viewer.
MaxBodyLen == 3

-----------------------------------------------------------------------------
(* Python values.                                                          *)

None == [t |-> "None"]
Str(s) == [t |-> "str", s |-> s]
Bool(b) == [t |-> "bool", b |-> b]
Num(n) == [t |-> "int", n |-> n]
List(items) == [t |-> "list", items |-> items]
Obj(d) == [t |-> "dict", d |-> d]

\* Python truthiness of an Optional[str]: None and "" are falsy.
Truthy(v) == v # None /\ v # Str(<<>>)

\* `v or ""` for an Optional[str] v, as a str.
OrEmpty(v) == IF Truthy(v) THEN v.s ELSE <<>>

EmptyDict == <<>>

\* `d or None` for a dict d.
OrNone(d) == IF DOMAIN d = {} THEN None ELSE Obj(d)

\* d[k] = v
DictSet(d, k, v) == [x \in DOMAIN d \cup {k} |-> IF x = k THEN v ELSE d[x]]

\* d.update(e): the entries of e replace those of d.
DictUpdate(d, e) ==
    [x \in DOMAIN d \cup DOMAIN e |-> IF x \in DOMAIN e THEN e[x] ELSE d[x]]

\* d.setdefault(k, v): sets d[k] only if k is not a key of d.
SetDefault(d, k, v) == IF k \in DOMAIN d THEN d ELSE DictSet(d, k, v)

-----------------------------------------------------------------------------
(* str methods.                                                            *)

Whitespace == {" ", "\n", "\t", "\r"}

RECURSIVE lstrip(_)
lstrip(s) ==
    IF s # <<>> /\ Head(s) \in Whitespace THEN lstrip(Tail(s)) ELSE s

RECURSIVE rstrip(_)
rstrip(s) ==
    IF s # <<>> /\ s[Len(s)] \in Whitespace
    THEN rstrip(SubSeq(s, 1, Len(s) - 1))
    ELSE s

\* s.strip()
strip(s) == rstrip(lstrip(s))

\* s.startswith(p)
startswith(s, p) == Len(s) >= Len(p) /\ SubSeq(s, 1, Len(p)) = p

\* `p in s` for strs
Contains(s, p) ==
    \E i \in 0..(Len(s) - Len(p)) : SubSeq(s, i + 1, i + Len(p)) = p

-----------------------------------------------------------------------------
(* json.loads.  A document is a str whose symbols are JSON lexemes:        *)
(* punctuation, whitespace, the literals, number lexemes and quoted-string *)
(* lexemes; every other symbol is text that is not JSON.                   *)

\* The digits, and the number a run of digits denotes.
Digits == ("0" :> 0) @@ ("1" :> 1)

RECURSIVE ParseDigits(_, _, _)
ParseDigits(s, i, n) ==
    IF i <= Len(s) /\ s[i] \in DOMAIN Digits
    THEN ParseDigits(s, i + 1, 10 * n + Digits[s[i]])
    ELSE [n |-> n, next |-> i]

\* A quoted-string lexeme and the str it denotes.
StringTokens ==
    ("\"a\"" :> <<"a">>) @@ ("\"x\"" :> <<"x">>) @@ ("\"example\"" :> <<"example">>)

JsonFail == [ok |-> FALSE, v |-> None]
JsonOk(v) == [ok |-> TRUE, v |-> v]

RECURSIVE SkipWs(_, _)
SkipWs(s, i) ==
    IF i <= Len(s) /\ s[i] \in Whitespace THEN SkipWs(s, i + 1) ELSE i

\* The decoder as a pushdown machine.  mode: "value" (a value is expected
\* at i), "key" (a member's string is expected), "after" (value v has just
\* been read), "ok", "fail".  stack: the arrays and objects still open.
ArrayFrame == [kind |-> "list", items |-> <<>>, d |-> EmptyDict, key |-> <<>>]
ObjectFrame == [kind |-> "dict", items |-> <<>>, d |-> EmptyDict, key |-> <<>>]

Failed(st) == [st EXCEPT !.mode = "fail"]
Read(st, v, next) == [st EXCEPT !.mode = "after", !.v = v, !.i = next]
Top(st) == st.stack[Len(st.stack)]
Pop(st) == SubSeq(st.stack, 1, Len(st.stack) - 1)

\* A value is expected; j is the first position that is not whitespace and
\* k the first such position after j.
StepValue(s, st, j, k) ==
    IF j > Len(s) THEN Failed(st)
    ELSE IF s[j] = "null" THEN Read(st, None, j + 1)
    ELSE IF s[j] = "true" THEN Read(st, Bool(TRUE), j + 1)
    ELSE IF s[j] = "false" THEN Read(st, Bool(FALSE), j + 1)
    ELSE IF s[j] = "0" THEN Read(st, Num(0), j + 1)
    ELSE IF s[j] \in DOMAIN Digits
         THEN Read(st, Num(ParseDigits(s, j, 0).n), ParseDigits(s, j, 0).next)
    ELSE IF s[j] \in DOMAIN StringTokens
         THEN Read(st, Str(StringTokens[s[j]]), j + 1)
    ELSE IF s[j] = "["
         THEN IF k <= Len(s) /\ s[k] = "]" THEN Read(st, List(<<>>), k + 1)
              ELSE [st EXCEPT !.stack = Append(@, ArrayFrame), !.i = j + 1]
    ELSE IF s[j] = "{"
         THEN IF k <= Len(s) /\ s[k] = "}" THEN Read(st, Obj(EmptyDict), k + 1)
              ELSE [st EXCEPT !.stack = Append(@, ObjectFrame), !.i = j + 1,
                              !.mode = "key"]
    ELSE Failed(st)

\* A member is expected: a string at k (the first position that is not
\* whitespace), then ":" at c (the first such position after k); its value
\* follows.
StepKey(s, st, k, c) ==
    IF k > Len(s) THEN Failed(st)
    ELSE IF s[k] \notin DOMAIN StringTokens THEN Failed(st)
    ELSE IF c > Len(s) THEN Failed(st)
    ELSE IF s[c] # ":" THEN Failed(st)
    ELSE [st EXCEPT !.stack[Len(st.stack)].key = StringTokens[s[k]],
                    !.i = c + 1, !.mode = "value"]

\* Value st.v has been read and j is the next position that is not
\* whitespace: st.v is the document's value (only whitespace may follow), or
\* it goes into the innermost open array (items) or object (d), and "," or
\* the closing bracket follows.  A repeated key keeps its last value.
StepAfter(s, st, j, items, d) ==
    IF st.stack = <<>>
    THEN IF j > Len(s) THEN [st EXCEPT !.mode = "ok"] ELSE Failed(st)
    ELSE IF j > Len(s) THEN Failed(st)
    ELSE IF Top(st).kind = "list"
    THEN IF s[j] = ","
         THEN [st EXCEPT !.stack[Len(st.stack)].items = items,
                         !.i = j + 1, !.mode = "value"]
         ELSE IF s[j] = "]"
         THEN [st EXCEPT !.stack = Pop(st), !.v = List(items), !.i = j + 1]
         ELSE Failed(st)
    ELSE IF s[j] = ","
         THEN [st EXCEPT !.stack[Len(st.stack)].d = d,
                         !.i = j + 1, !.mode = "key"]
         ELSE IF s[j] = "}"
         THEN [st EXCEPT !.stack = Pop(st), !.v = Obj(d), !.i = j + 1]
         ELSE Failed(st)

\* One step of the machine.
Step(s, st) ==
    IF st.mode = "value"
    THEN StepValue(s, st, SkipWs(s, st.i), SkipWs(s, SkipWs(s, st.i) + 1))
    ELSE IF st.mode = "key"
    THEN StepKey(s, st, SkipWs(s, st.i), SkipWs(s, SkipWs(s, st.i) + 1))
    ELSE IF st.stack = <<>>
    THEN StepAfter(s, st, SkipWs(s, st.i), <<>>, EmptyDict)
    ELSE StepAfter(s, st, SkipWs(s, st.i), Append(Top(st).items, st.v),
                   DictSet(Top(st).d, Top(st).key, st.v))

RECURSIVE Decode(_, _)
Decode(s, st) ==
    IF st.mode \in {"ok", "fail"} THEN st ELSE Decode(s, Step(s, st))

\* The machine's answer as the result of json.loads.
Decoded(st) == IF st.mode = "ok" THEN JsonOk(st.v) ELSE JsonFail

\* json.loads(s): the value of the whole document, or a failure (the
\* JSONDecodeError) when s is not one JSON value between whitespace.
json_loads(s) ==
    Decoded(Decode(s, [mode |-> "value", i |-> 1, stack |-> <<>>, v |-> None]))

-----------------------------------------------------------------------------
(* Utils of the script.                                                    *)

\* r.get(f): the cell of row r, None when the row has no such field.
Get(r, f) == IF f \in DOMAIN r THEN r[f] ELSE None

\* A plausible slip: the first row of a key wins.
PutRowFirstWins(out, k, v) == IF k # <<>> THEN SetDefault(out, k, v) ELSE out

\* if k: out[k] = v
PutRow(out, k, v) == IF k # <<>> THEN DictSet(out, k, v) ELSE out

\* The loop of kv_rows_to_dict over the rows left, out being the dict so far.
RECURSIVE kv_rows_to_dict_from(_, _)
kv_rows_to_dict_from(rows, out) ==
    IF rows = <<>> THEN out
    ELSE kv_rows_to_dict_from(Tail(rows),
             PutRow(out, strip(OrEmpty(Get(Head(rows), "key"))),
                         strip(OrEmpty(Get(Head(rows), "value")))))

\* kv_rows_to_dict(rows)
kv_rows_to_dict(rows) == kv_rows_to_dict_from(rows, EmptyDict)

\* A plausible slip: Basic only with a truthy username (`and user`).
build_auth_truthy_user(at, bearer, user, pwd) ==
    IF at = "Bearer" /\ Truthy(bearer)
    THEN [headers_add |-> (<<"Authorization">> :> (<<"Bearer", " ">> \o bearer.s)),
          requests_auth |-> None]
    ELSE IF at = "Basic" /\ Truthy(user)
    THEN [headers_add |-> EmptyDict,
          requests_auth |-> [t |-> "tuple", user |-> user.s, pwd |-> OrEmpty(pwd)]]
    ELSE [headers_add |-> EmptyDict, requests_auth |-> None]

\* build_auth(auth_type, bearer, user, pwd): (headers_add, requests_auth)
build_auth(at, bearer, user, pwd) ==
    IF at = "Bearer" /\ Truthy(bearer)
    THEN [headers_add |-> (<<"Authorization">> :> (<<"Bearer", " ">> \o bearer.s)),
          requests_auth |-> None]
    ELSE IF at = "Basic" /\ user # None
    THEN [headers_add |-> EmptyDict,
          requests_auth |-> [t |-> "tuple", user |-> user.s, pwd |-> OrEmpty(pwd)]]
    ELSE [headers_add |-> EmptyDict, requests_auth |-> None]

\* The value of a json.loads that succeeded, None for one that failed.
ValueOrNone(r) == IF r.ok THEN r.v ELSE None

\* try_parse_json(s): the parsed value, or None when parsing fails.
try_parse_json(s) == ValueOrNone(json_loads(s))

-----------------------------------------------------------------------------
(* The widgets of the page and the values they hand to the script.         *)

APPLICATION_JSON == <<"application/json">>
CONTENT_TYPE == <<"Content-Type">>

\* st.number_input("Timeout (s)", ..., value=20.0)
DefaultTimeout == 20

\* The rows the two data editors start with.
DefaultParamsRows == <<[key |-> Str(<<>>), value |-> Str(<<>>)]>>
DefaultHeadersRows == <<[key |-> Str(<<"Accept">>), value |-> Str(APPLICATION_JSON)]>>

\* The text the "JSON body" text area starts with.
DefaultJsonBody ==
    <<"{", "\n", " ", " ", "\"example\"", ":", " ", "true", "\n", "}">>

\* The Body tab: GET has no body widgets; otherwise the radio selection
\* sel gives the mode and, for json and raw, a text area gives the text.
BodyTab(m, sel, text) ==
    IF m = "GET" THEN [body_mode |-> None, body_raw |-> <<>>]
    ELSE IF sel = "json" THEN [body_mode |-> Str(<<"json">>), body_raw |-> text]
    ELSE IF sel = "raw" THEN [body_mode |-> Str(<<"raw">>), body_raw |-> text]
    ELSE [body_mode |-> None, body_raw |-> <<>>]

\* The Auth tab: the three credentials are None unless the widget of the
\* selected type is shown, and a shown text input always gives a str.
AuthTab(at, token, user, pwd) ==
    [auth_type |-> at,
     bearer_token |-> IF at = "Bearer" THEN Str(token) ELSE None,
     basic_user |-> IF at = "Basic" THEN Str(user) ELSE None,
     basic_pass |-> IF at = "Basic" THEN Str(pwd) ELSE None]

\* All the values of one run's widgets.
Form(name, m, u, hrows, prows, body, auth) ==
    [new_name |-> name, method |-> m, url |-> u, timeout_s |-> DefaultTimeout,
     verify_ssl |-> TRUE, params_rows |-> prows, headers_rows |-> hrows,
     body_mode |-> body.body_mode, body_raw |-> body.body_raw,
     auth_type |-> auth.auth_type, bearer_token |-> auth.bearer_token,
     basic_user |-> auth.basic_user, basic_pass |-> auth.basic_pass]

\* The page as first loaded: every widget at its default.
DefaultForm ==
    Form(<<>>, "GET", <<>>, DefaultHeadersRows, DefaultParamsRows,
         BodyTab("GET", "none", <<>>), AuthTab("None", <<>>, <<>>, <<>>))

\* The widgets hold the values of form f.
WidgetsAre(f) ==
    /\ new_name = f.new_name
    /\ method = f.method
    /\ url = f.url
    /\ timeout_s = f.timeout_s
    /\ verify_ssl = f.verify_ssl
    /\ params_rows = f.params_rows
    /\ headers_rows = f.headers_rows
    /\ body_mode = f.body_mode
    /\ body_raw = f.body_raw
    /\ auth_type = f.auth_type
    /\ bearer_token = f.bearer_token
    /\ basic_user = f.basic_user
    /\ basic_pass = f.basic_pass

\* The user edits the widgets to the values of form f.
SetWidgets(f) ==
    /\ new_name' = f.new_name
    /\ method' = f.method
    /\ url' = f.url
    /\ timeout_s' = f.timeout_s
    /\ verify_ssl' = f.verify_ssl
    /\ params_rows' = f.params_rows
    /\ headers_rows' = f.headers_rows
    /\ body_mode' = f.body_mode
    /\ body_raw' = f.body_raw
    /\ auth_type' = f.auth_type
    /\ bearer_token' = f.bearer_token
    /\ basic_user' = f.basic_user
    /\ basic_pass' = f.basic_pass

widgets == <<new_name, method, url, timeout_s, verify_ssl, params_rows,
             headers_rows, body_mode, body_raw, auth_type, bearer_token,
             basic_user, basic_pass>>

-----------------------------------------------------------------------------
(* The HTTP client and its answers.                                        *)

\* A transport failure (a requests.exceptions.RequestException).
RequestException(msg) == [failed |-> TRUE, message |-> msg]

\* A response: status code, headers, body text.
Response(status, hdrs, text) ==
    [failed |-> FALSE,
     resp |-> [status_code |-> status, headers |-> hdrs, text |-> text]]

\* No call is pending.
NoAnswer == RequestException("none")

\* requests.request(...): the client refuses a URL whose scheme, after
\* leading whitespace, is not http or https (MissingSchema, InvalidSchema:
\* both RequestException) without using the network; otherwise the answer
\* is the network's.
requests_request(req, net) ==
    IF \/ startswith(lstrip(req.url), <<"http", "://">>)
       \/ startswith(lstrip(req.url), <<"http", "s", "://">>)
    THEN net
    ELSE RequestException("InvalidSchema")

\* d.get(k, default)
DictGet(d, k, default) == IF k \in DOMAIN d THEN d[k] ELSE default

-----------------------------------------------------------------------------
(* Save preset: the script holds the block twice (once more under the      *)
(* Italian comments), and a click runs both.  RequestPreset's validators   *)
(* accept every value the widgets can give (str, Dict[str, str],           *)
(* Optional[str], float, bool), so ValidationError is never raised.        *)

\* name=new_name.strip() or "Preset"
PresetName(n) == IF strip(n) # <<>> THEN strip(n) ELSE <<"Preset">>

\* RequestPreset(...) built from the widgets.
RequestPreset ==
    [name |-> PresetName(new_name), method |-> method, url |-> url,
     headers |-> kv_rows_to_dict(headers_rows),
     params |-> kv_rows_to_dict(params_rows),
     auth_type |-> auth_type, bearer_token |-> bearer_token,
     basic_user |-> basic_user, basic_pass |-> basic_pass,
     body_mode |-> body_mode, body_raw |-> body_raw,
     timeout_s |-> timeout_s, verify_ssl |-> verify_ssl]

\* preset_names = [p.name for p in st.session_state.presets], which the
\* script computes for the select box before it reaches the save blocks.
NamesOf(ps) == [i \in 1..Len(ps) |-> ps[i].name]

\* A plausible slip: append without removing the preset of that name.
SaveBlockAppendOnly(ps, p) == Append(ps, p)

\* A plausible slip: replace the preset of that name where it stands.
SaveBlockInPlace(ps, p) ==
    IF \E i \in 1..Len(ps) : ps[i].name = p.name
    THEN [i \in 1..Len(ps) |-> IF ps[i].name = p.name THEN p ELSE ps[i]]
    ELSE Append(ps, p)

\* One save block: drop the presets named like p, then append p.
SaveBlock(ps, p) == Append(SelectSeq(ps, LAMBDA q : q.name # p.name), p)

\* The elements of the page that the model records.
Success(name) == [w |-> "success", name |-> name]
Error(msg) == [w |-> "error", msg |-> msg]
RequestFailedError(e) == [w |-> "error", msg |-> "Request failed", e |-> e.message]
HelpExpander == [w |-> "expander", label |-> "Help and notes"]

\* The run of the script after a click on "Save preset".
SavePreset ==
    /\ pc = "run"
    /\ save_clicked
    /\ preset_names' = NamesOf(presets)
    /\ \E p \in {RequestPreset} :
          /\ presets' = SaveBlock(SaveBlock(presets, p), p)
          /\ rendered' = <<Success(p.name), Success(p.name), HelpExpander>>
    /\ outcome' = "completed"
    /\ pc' = "done"
    /\ UNCHANGED <<widgets, save_clicked, submitted, network, headers,
                   requests_auth, sent>>

-----------------------------------------------------------------------------
(* Send request.                                                           *)

\* not url.strip().startswith("http")
InvalidUrl(u) == ~startswith(strip(u), <<"http">>)

\* headers after kv_rows_to_dict and headers.update(auth_headers).
HeadersWithAuth(hrows, auth) ==
    DictUpdate(kv_rows_to_dict(hrows), auth.headers_add)

\* A plausible slip: `if` for `elif`, so that a json body is also sent raw.
BodySelectionBoth(mode, raw, hdrs) ==
    IF mode = Str(<<"json">>) /\ strip(raw) # <<>>
    THEN [data |-> Str(raw), json_payload |-> try_parse_json(raw),
          headers |-> SetDefault(hdrs, CONTENT_TYPE, APPLICATION_JSON)]
    ELSE IF mode = Str(<<"raw">>)
    THEN [data |-> Str(raw), json_payload |-> None,
          headers |-> SetDefault(hdrs, CONTENT_TYPE, APPLICATION_JSON)]
    ELSE [data |-> None, json_payload |-> None, headers |-> hdrs]

\* The body of the request: data, json_payload and the Content-Type default.
BodySelection(mode, raw, hdrs) ==
    IF mode = Str(<<"json">>) /\ strip(raw) # <<>>
    THEN [data |-> None, json_payload |-> try_parse_json(raw),
          headers |-> SetDefault(hdrs, CONTENT_TYPE, APPLICATION_JSON)]
    ELSE IF mode = Str(<<"raw">>)
    THEN [data |-> Str(raw), json_payload |-> None,
          headers |-> SetDefault(hdrs, CONTENT_TYPE, APPLICATION_JSON)]
    ELSE [data |-> None, json_payload |-> None, headers |-> hdrs]

\* The locals of the else branch when it reaches requests.request, from
\* what build_auth and the body selection returned.
Locals(auth, body) ==
    [headers |-> body.headers,
     params |-> kv_rows_to_dict(params_rows),
     requests_auth |-> auth.requests_auth,
     data |-> body.data, json_payload |-> body.json_payload]

SendLocals ==
    Locals(build_auth(auth_type, bearer_token, basic_user, basic_pass),
           BodySelection(body_mode, body_raw,
               HeadersWithAuth(headers_rows,
                   build_auth(auth_type, bearer_token, basic_user, basic_pass))))

\* The arguments of requests.request(...).
RequestArgs(l) ==
    [method |-> method, url |-> url,
     params |-> OrNone(l.params), headers |-> OrNone(l.headers),
     data |-> l.data, json |-> l.json_payload, auth |-> l.requests_auth,
     timeout |-> timeout_s, verify |-> verify_ssl]

\* The body under a declared application/json: st.json(resp.json()), and
\* st.text(resp.text) when resp.json() raises.
ShowDeclared(resp, r) ==
    IF r.ok THEN [w |-> "json", value |-> r.v]
    ELSE [w |-> "text", text |-> resp.text]

\* The body under any other content type: st.json(parsed) unless
\* try_parse_json returned None, then the text area.
ShowSniffed(resp, parsed) ==
    IF parsed # None THEN [w |-> "json", value |-> parsed]
    ELSE [w |-> "text_area", text |-> resp.text]

\* The body viewer: which element shows the body of resp.
BodyViewer(resp) ==
    IF Contains(DictGet(resp.headers, CONTENT_TYPE, <<>>), APPLICATION_JSON)
    THEN ShowDeclared(resp, json_loads(resp.text))
    ELSE ShowSniffed(resp, try_parse_json(resp.text))

\* The cURL preview of the request (requests.Request(...).prepare() of the
\* arguments that requests.request has just accepted).
CurlPreview(req) ==
    <<[w |-> "subheader", text |-> "cURL preview"],
      [w |-> "code", curl |-> [method |-> req.method, url |-> req.url,
                               params |-> req.params, headers |-> req.headers,
                               data |-> req.data, json |-> req.json]]>>

\* The response panel in the else branch of the URL check.
ResponsePanel(req, resp) ==
    <<[w |-> "subheader", text |-> "Response"],
      [w |-> "metric", label |-> "Status", value |-> resp.status_code],
      [w |-> "metric", label |-> "Elapsed"],
      [w |-> "code", final_url |-> req.url],
      [w |-> "response_headers", value |-> resp.headers],
      BodyViewer(resp),
      [w |-> "download_button", key |-> None]>>
    \o CurlPreview(req)

\* The second copy of the panel, under `if submitted` after the URL check:
\* it uses resp, m_cols and the request as the else branch left them.
SecondPanel(req, resp) ==
    <<HelpExpander,
      [w |-> "metric", label |-> "Status", value |-> resp.status_code],
      [w |-> "metric", label |-> "Elapsed"],
      [w |-> "code", final_url |-> req.url],
      [w |-> "response_headers", value |-> resp.headers],
      BodyViewer(resp),
      [w |-> "download_button", key |-> Str(<<"download_response">>)]>>
    \o CurlPreview(req)

\* A plausible slip: one more attempt after a transport failure.
OnRequestExceptionRetry(req, e) ==
    [sent |-> <<req, req>>,
     rendered |-> <<RequestFailedError(e)>>,
     outcome |-> "stopped", headers |-> EmptyDict, requests_auth |-> None]

\* except RequestException: st.error(...), then st.stop() ends the run.
OnRequestException(req, e) ==
    [sent |-> <<req>>,
     rendered |-> <<RequestFailedError(e)>>,
     outcome |-> "stopped", headers |-> EmptyDict, requests_auth |-> None]

\* The script after requests.request(**req) has answered ans.
AfterCall(l, req, ans) ==
    IF ans.failed
    THEN [OnRequestException(req, ans) EXCEPT !.headers = l.headers,
                                              !.requests_auth = l.requests_auth]
    ELSE [sent |-> <<req>>,
          rendered |-> ResponsePanel(req, ans.resp)
                       \o SecondPanel(req, ans.resp)
                       \o <<HelpExpander>>,
          outcome |-> "completed",
          headers |-> l.headers, requests_auth |-> l.requests_auth]

\* The else branch of the URL check, l being its locals.
ValidUrlBranch(l) ==
    AfterCall(l, RequestArgs(l), requests_request(RequestArgs(l), network))

\* The run from `if submitted:` to the end of the script.
SendSection ==
    IF InvalidUrl(url)
    THEN \* st.error, then the second panel: the help expander is drawn and
         \* the f-string of its st.metric reads resp, which is unbound.
         [sent |-> <<>>,
          rendered |-> <<Error("Invalid URL. Must start with http or https."),
                         HelpExpander>>,
          outcome |-> "NameError",
          headers |-> EmptyDict, requests_auth |-> None]
    ELSE ValidUrlBranch(SendLocals)

\* The run of the script after a click on "Send request".
SendRequest ==
    /\ pc = "run"
    /\ submitted
    /\ \E r \in {SendSection} :
          /\ sent' = r.sent
          /\ rendered' = r.rendered
          /\ outcome' = r.outcome
          /\ headers' = r.headers
          /\ requests_auth' = r.requests_auth
    /\ preset_names' = NamesOf(presets)
    /\ pc' = "done"
    /\ UNCHANGED <<presets, widgets, save_clicked, submitted, network>>

-----------------------------------------------------------------------------
(* The user's events, and the session.                                     *)

RECURSIVE SeqsUpTo(_, _)
\* The sequences over A of length at most n.
SeqsUpTo(A, n) ==
    IF n = 0 THEN {<<>>}
    ELSE SeqsUpTo(A, n - 1)
         \cup {Append(s, a) : s \in {x \in SeqsUpTo(A, n - 1) : Len(x) = n - 1},
                              a \in A}

\* The script is about to run on an event: widgets f, network answer net.
Pending(f, net) ==
    /\ WidgetsAre(f)
    /\ network = net
    /\ headers = EmptyDict
    /\ requests_auth = None
    /\ sent = <<>>
    /\ rendered = <<>>
    /\ outcome = "running"

\* The event: the widgets take the values of f and the script starts over.
Event(f, net) ==
    /\ SetWidgets(f)
    /\ network' = net
    /\ headers' = EmptyDict
    /\ requests_auth' = None
    /\ sent' = <<>>
    /\ rendered' = <<>>
    /\ outcome' = "running"
    /\ pc' = "run"
    /\ UNCHANGED <<presets, preset_names>>

HttpsHost == <<"http", "s", "://", "host">>

\* What the user types as preset name.
NewNames == {<<>>, <<" ">>, <<"a">>, <<" ", "a", " ">>, <<"b">>}

\* The forms saved as presets in the session.
SaveForms ==
    {Form(n, "GET", HttpsHost, DefaultHeadersRows, DefaultParamsRows,
          BodyTab("GET", "none", <<>>), AuthTab("None", <<>>, <<>>, <<>>))
       : n \in NewNames}
    \cup
    {Form(n, "POST", HttpsHost, DefaultHeadersRows, DefaultParamsRows,
          BodyTab("POST", "json", DefaultJsonBody),
          AuthTab("Bearer", <<"tok">>, <<>>, <<>>))
       : n \in NewNames}

\* The answers of the network in the session.
JsonResponse ==
    Response(200, CONTENT_TYPE :> APPLICATION_JSON,
             <<"{", "\"a\"", ":", "1", "}">>)
TextResponse == Response(200, CONTENT_TYPE :> <<"text/plain">>, <<"x">>)
Answers == {RequestException("timeout"), JsonResponse, TextResponse}

\* The forms sent in the session.
SessionSendForms ==
    {Form(<<>>, m, u, DefaultHeadersRows, DefaultParamsRows,
          BodyTab(m, "json", <<"null">>), AuthTab("None", <<>>, <<>>, <<>>))
       : m \in {"GET", "POST"}, u \in {<<"ftp", "://", "host">>, HttpsHost}}

\* The user fills the widgets and clicks "Save preset".
ClickSavePreset ==
    /\ pc = "done"
    /\ \E f \in SaveForms : Event(f, NoAnswer)
    /\ save_clicked' = TRUE
    /\ submitted' = FALSE

\* The user fills the form and clicks "Send request".
ClickSendRequest ==
    /\ pc = "done"
    /\ \E f \in SessionSendForms, net \in Answers : Event(f, net)
    /\ save_clicked' = FALSE
    /\ submitted' = TRUE

\* The page as first loaded: no preset, no event, only the footer drawn.
Init ==
    /\ presets = <<>>
    /\ preset_names = <<>>
    /\ WidgetsAre(DefaultForm)
    /\ save_clicked = FALSE
    /\ submitted = FALSE
    /\ network = NoAnswer
    /\ headers = EmptyDict
    /\ requests_auth = None
    /\ sent = <<>>
    /\ rendered = <<HelpExpander>>
    /\ outcome = "completed"
    /\ pc = "done"

Next == ClickSavePreset \/ SavePreset \/ ClickSendRequest \/ SendRequest

\* A session: any sequence of saves and sends.
Spec == Init /\ [][Next]_vars

-----------------------------------------------------------------------------
(* One run of the send section on every form and answer of a wider set:    *)
(* the widgets and the network's answer are drawn first, then the script   *)
(* runs.                                                                   *)

SendUrls ==
    {<<>>, <<"ftp", "://", "host">>, <<"http", "://", "host">>, HttpsHost,
     <<" ", "http", "s", "://", "host", " ">>, <<"http", "x", "://", "host">>}

SendHeaderRows ==
    {DefaultHeadersRows,
     <<[key |-> Str(<<"Authorization">>), value |-> Str(<<"mine">>)],
       [key |-> Str(<<" ", "Content-Type">>), value |-> Str(<<"text/plain", " ">>)]>>,
     <<[key |-> None, value |-> None]>>}

\* A method with what the Body tab gives for it.
SendBodies ==
    {<<"GET", BodyTab("GET", "none", <<>>)>>,
     <<"POST", BodyTab("POST", "none", <<>>)>>}
    \cup {<<"POST", BodyTab("POST", "json", text)>> :
            text \in {<<" ">>, <<"null">>, <<"x">>, DefaultJsonBody,
                      <<"{", "\"x\"", ":", "1", "}">>}}
    \cup {<<"PUT", BodyTab("PUT", "raw", text)>> : text \in {<<>>, <<"x">>}}

SendAuths ==
    {AuthTab("None", <<>>, <<>>, <<>>), AuthTab("Bearer", <<>>, <<>>, <<>>),
     AuthTab("Bearer", <<"tok">>, <<>>, <<>>), AuthTab("Basic", <<>>, <<>>, <<>>),
     AuthTab("Basic", <<"u">>, <<"p">>, <<>>)}

SendForms ==
    {Form(<<>>, b[1], u, h, DefaultParamsRows, b[2], a) :
       u \in SendUrls, h \in SendHeaderRows, b \in SendBodies, a \in SendAuths}

\* The symbols of a response body.
BodySymbols == {"null", "1", "[", "]", ",", " ", "x"}

ResponseHeaders ==
    {EmptyDict, CONTENT_TYPE :> APPLICATION_JSON,
     CONTENT_TYPE :> <<"application/json", ";", " ", "charset=utf-8">>,
     CONTENT_TYPE :> <<"text/plain">>}

\* Every response with a body of at most MaxBodyLen symbols.
Responses ==
    {Response(200, h, text) :
       h \in ResponseHeaders, text \in SeqsUpTo(BodySymbols, MaxBodyLen)}

\* The form that asks for them.
GetForm ==
    Form(<<>>, "GET", HttpsHost, DefaultHeadersRows, DefaultParamsRows,
         BodyTab("GET", "none", <<>>), AuthTab("None", <<>>, <<>>, <<>>))

InitSend ==
    /\ presets = <<>>
    /\ preset_names = <<>>
    /\ save_clicked = FALSE
    /\ submitted = TRUE
    /\ pc = "run"
    /\ \/ \E f \in SendForms, net \in Answers : Pending(f, net)
       \/ \E net \in Responses : Pending(GetForm, net)

SpecSend == InitSend /\ [][SendRequest]_vars

-----------------------------------------------------------------------------
(* kv_rows_to_dict on every list of at most MaxRows rows: a row may lack a *)
(* field, and a cell of the data editor is None or a str.                  *)

KeyCells ==
    {None, Str(<<>>), Str(<<" ">>), Str(<<"a">>), Str(<<" ", "a">>),
     Str(<<"a", " ">>), Str(<<"b">>), Str(<<"a", " ", "b">>)}
ValueCells == {None, Str(<<>>), Str(<<"1">>), Str(<<" ", "2", " ">>)}

Rows ==
    {[key |-> k, value |-> v] : k \in KeyCells, v \in ValueCells}
    \cup {[key |-> k] : k \in KeyCells}
    \cup {[value |-> v] : v \in ValueCells}

InitKV ==
    /\ presets = <<>>
    /\ preset_names = <<>>
    /\ save_clicked = FALSE
    /\ submitted = FALSE
    /\ pc = "kv_rows_to_dict"
    /\ \E rows \in SeqsUpTo(Rows, MaxRows) :
          Pending([DefaultForm EXCEPT !.headers_rows = rows], NoAnswer)

\* headers = kv_rows_to_dict(headers_rows)
CollectHeaders ==
    /\ pc = "kv_rows_to_dict"
    /\ headers' = kv_rows_to_dict(headers_rows)
    /\ outcome' = "returned"
    /\ pc' = "done"
    /\ UNCHANGED <<presets, preset_names, widgets, save_clicked, submitted,
                   network, requests_auth, sent, rendered>>

SpecKV == InitKV /\ [][CollectHeaders]_vars

-----------------------------------------------------------------------------
(* build_auth on every auth type and every Optional[str] argument, and the *)
(* merge of its headers into the ones the user entered.                    *)

OptionalStrs == {None, Str(<<>>), Str(<<"s">>)}

AuthHeaderRows ==
    {DefaultHeadersRows,
     <<[key |-> Str(<<"Authorization">>), value |-> Str(<<"mine">>)]>>,
     <<[key |-> Str(<<"Accept">>), value |-> Str(<<"*/*">>)],
       [key |-> Str(<<" ", "Authorization">>), value |-> Str(<<"Basic", " ", "abc">>)]>>,
     <<>>}

InitAuth ==
    /\ presets = <<>>
    /\ preset_names = <<>>
    /\ save_clicked = FALSE
    /\ submitted = FALSE
    /\ pc = "build_auth"
    /\ \E at \in {"None", "Bearer", "Basic"}, b \in OptionalStrs,
          u \in OptionalStrs, p \in OptionalStrs, rows \in AuthHeaderRows :
          Pending([DefaultForm EXCEPT !.auth_type = at, !.bearer_token = b,
                                      !.basic_user = u, !.basic_pass = p,
                                      !.headers_rows = rows], NoAnswer)

\* auth_headers, requests_auth = build_auth(...); headers.update(auth_headers)
ResolveAuth ==
    /\ pc = "build_auth"
    /\ \E a \in {build_auth(auth_type, bearer_token, basic_user, basic_pass)} :
          /\ headers' = HeadersWithAuth(headers_rows, a)
          /\ requests_auth' = a.requests_auth
    /\ outcome' = "returned"
    /\ pc' = "done"
    /\ UNCHANGED <<presets, preset_names, widgets, save_clicked, submitted,
                   network, sent, rendered>>

SpecAuth == InitAuth /\ [][ResolveAuth]_vars

-----------------------------------------------------------------------------
(* The claims.                                                             *)

\* The script has just run the save blocks / the send section.
SaveDone == pc = "done" /\ save_clicked
SendDone == pc = "done" /\ submitted

\* A run of the save blocks, as a step.
SaveStep == pc = "run" /\ save_clicked /\ pc' = "done"

\* The positions of the presets named n.
Named(ps, n) == {i \in 1..Len(ps) : ps[i].name = n}

\* The elements of the response panel, the download button and the preview.
ResponseWidgets ==
    {"subheader", "metric", "code", "response_headers", "json", "text",
     "text_area", "download_button"}
Shows(ws) == \E i \in 1..Len(rendered) : rendered[i].w \in ws

(* C1: after any sequence of saves the store holds at most one preset per  *)
(* name; a save under a name already present leaves the number of presets  *)
(* unchanged, and the one preset of that name holds the widgets' values of *)
(* that save, although a click runs the save block twice.                  *)
C1_UpsertByName ==
    /\ \A i, j \in 1..Len(presets) :
          presets[i].name = presets[j].name => i = j
    /\ SaveDone =>
          /\ \E i \in 1..Len(presets) :
                /\ Named(presets, PresetName(new_name)) = {i}
                /\ presets[i].method = method
                /\ presets[i].url = url
                /\ presets[i].body_mode = body_mode
                /\ presets[i].body_raw = body_raw
                /\ presets[i].auth_type = auth_type
                /\ presets[i].bearer_token = bearer_token
          /\ Len(presets) =
                IF \E i \in 1..Len(preset_names) :
                      preset_names[i] = PresetName(new_name)
                THEN Len(preset_names)
                ELSE Len(preset_names) + 1

\* A save under a name the store listed before the run (typed with spaces
\* around it): the store still has two presets, the saved one last.
C1_Witness ==
    /\ SaveDone
    /\ Len(preset_names) = 2
    /\ preset_names[2] = PresetName(new_name)
    /\ new_name # PresetName(new_name)
    /\ Len(presets) = 2
    /\ presets[2].method = "POST"

(* C10: a save under a name in the store moves that preset to the end of   *)
(* the listing and leaves the other presets, their contents and their      *)
(* relative order unchanged; a save under a new name appends; no save      *)
(* removes a preset of another name.                                       *)
C10_MoveToEnd ==
    [][SaveStep =>
         /\ Len(presets') >= 1
         /\ presets'[Len(presets')].name = PresetName(new_name)
         /\ SubSeq(presets', 1, Len(presets') - 1)
              = SelectSeq(presets, LAMBDA q : q.name # PresetName(new_name))]_vars

\* Three presets, and the first of the listing has just been saved again:
\* it is now the last, behind the other two in their order.
C10_Witness ==
    /\ SaveDone
    /\ Len(preset_names) = 3
    /\ preset_names[1] = PresetName(new_name)
    /\ NamesOf(presets) = <<preset_names[2], preset_names[3], preset_names[1]>>

(* C2: a submission whose trimmed URL does not start with http is reported *)
(* as an invalid URL and aborted: nothing is dispatched, no part of the    *)
(* response panel, download button or cURL preview is run, and the run     *)
(* ends without an unhandled failure.                                      *)
C2_InvalidUrlAborted ==
    (SendDone /\ ~startswith(strip(url), <<"http">>)) =>
        /\ \E i \in 1..Len(rendered) :
              rendered[i].w = "error" /\ rendered[i].msg # "Request failed"
        /\ sent = <<>>
        /\ ~Shows(ResponseWidgets)
        /\ outcome \in {"completed", "stopped"}

(* C3: a submission calls the HTTP client at most once; when the call ends *)
(* in a transport failure the failure is reported and nothing of the       *)
(* response (status, headers, body, download button, cURL preview) is      *)
(* rendered.                                                               *)
C3_NoRetryNoPartialResult ==
    SendDone =>
        /\ Len(sent) <= 1
        /\ (sent # <<>> /\ requests_request(sent[1], network).failed) =>
              /\ \E i \in 1..Len(rendered) :
                    rendered[i].w = "error" /\ rendered[i].msg = "Request failed"
              /\ ~Shows(ResponseWidgets)

\* A call that the network failed.
C3_Witness ==
    /\ SendDone
    /\ Len(sent) = 1
    /\ network = RequestException("timeout")
    /\ outcome = "stopped"

(* C7: every request handed to the HTTP client has a URL that starts with  *)
(* http:// or https://.                                                    *)
C7_DispatchedUrlScheme ==
    \A i \in 1..Len(sent) :
        \/ startswith(sent[i].url, <<"http", "://">>)
        \/ startswith(sent[i].url, <<"http", "s", "://">>)

(* C8: a dispatched request never has both a JSON payload and raw data;    *)
(* with method GET or no body mode it has neither, and its headers have no *)
(* Content-Type but the one the user entered.                              *)
C8_BodyExclusive ==
    \A i \in 1..Len(sent) :
        /\ sent[i].json = None \/ sent[i].data = None
        /\ (method = "GET" \/ body_mode = None) =>
              /\ sent[i].json = None
              /\ sent[i].data = None
              /\ sent[i].headers =
                    OrNone(DictUpdate(kv_rows_to_dict(headers_rows),
                        build_auth(auth_type, bearer_token, basic_user,
                                   basic_pass).headers_add))

\* A dispatched GET whose headers have no Content-Type.
C8_Witness ==
    /\ SendDone
    /\ Len(sent) = 1
    /\ method = "GET"
    /\ CONTENT_TYPE \notin DOMAIN headers

(* C9: with body mode json and a non-blank text, the dispatched headers    *)
(* have the user's Content-Type if there is one and application/json       *)
(* otherwise, and a text that parses is dispatched as a JSON payload that  *)
(* is present and equal to the parsed value.                               *)
C9_JsonBodyDispatched ==
    (SendDone /\ sent # <<>> /\ body_mode = Str(<<"json">>)
       /\ strip(body_raw) # <<>>) =>
        /\ sent[1].headers # None
        /\ CONTENT_TYPE \in DOMAIN sent[1].headers.d
        /\ sent[1].headers.d[CONTENT_TYPE] =
              IF CONTENT_TYPE \in DOMAIN kv_rows_to_dict(headers_rows)
              THEN kv_rows_to_dict(headers_rows)[CONTENT_TYPE]
              ELSE APPLICATION_JSON
        /\ json_loads(body_raw).ok =>
              /\ sent[1].json # None
              /\ sent[1].json = json_loads(body_raw).v

(* C5: the body of a response is rendered structured whenever its text     *)
(* parses as JSON, whatever the Content-Type, and as the unmodified text   *)
(* exactly when it does not parse.                                         *)
C5_BodyRendering ==
    (SendDone /\ outcome = "completed") =>
        \A i \in 1..Len(rendered) :
            rendered[i].w \in {"json", "text", "text_area"} =>
                IF json_loads(network.resp.text).ok
                THEN /\ rendered[i].w = "json"
                     /\ rendered[i].value = json_loads(network.resp.text).v
                ELSE /\ rendered[i].w \in {"text", "text_area"}
                     /\ rendered[i].text = network.resp.text

(* C4: kv_rows_to_dict returns a dict without the key "", whose keys are   *)
(* the trimmed keys of the rows with a non-empty trimmed key, each with    *)
(* the trimmed value of the last row of that key; a missing or None cell   *)
(* counts as "".                                                           *)
CellText(r, f) == IF f \in DOMAIN r /\ r[f] # None THEN r[f].s ELSE <<>>
RowKey(i) == strip(CellText(headers_rows[i], "key"))
RowValue(i) == strip(CellText(headers_rows[i], "value"))
LastRowOf(k) ==
    CHOOSE i \in 1..Len(headers_rows) :
        RowKey(i) = k /\ \A j \in (i + 1)..Len(headers_rows) : RowKey(j) # k

C4_LastRowWins ==
    (pc = "done" /\ outcome = "returned") =>
        /\ <<>> \notin DOMAIN headers
        /\ DOMAIN headers = {RowKey(i) : i \in 1..Len(headers_rows)} \ {<<>>}
        /\ \A k \in DOMAIN headers : headers[k] = RowValue(LastRowOf(k))

\* Two rows with the same trimmed key and different values, one of them
\* written with spaces: the dict has the second row's value.
C4_Witness ==
    /\ pc = "done"
    /\ outcome = "returned"
    /\ Len(headers_rows) = 2
    /\ headers_rows[1] = [key |-> Str(<<"a", " ">>), value |-> Str(<<"1">>)]
    /\ headers_rows[2] = [key |-> Str(<<" ", "a">>), value |-> Str(<<" ", "2", " ">>)]
    /\ headers = (<<"a">> :> <<"2">>)

(* C6: build_auth has three outcomes.  Bearer with a non-empty token: only *)
(* the header Authorization: Bearer <token>, which replaces an             *)
(* Authorization the user entered, and no credentials.  Basic with a       *)
(* username that is not None (it may be ""): no header, and credentials    *)
(* (username, password or "").  Anything else: no header, no credentials.  *)
AUTHORIZATION == <<"Authorization">>
UserHeaders == kv_rows_to_dict(headers_rows)

C6_AuthResolution ==
    (pc = "done" /\ outcome = "returned") =>
        IF auth_type = "Bearer" /\ bearer_token \notin {None, Str(<<>>)}
        THEN /\ requests_auth = None
             /\ DOMAIN headers = DOMAIN UserHeaders \cup {AUTHORIZATION}
             /\ headers[AUTHORIZATION] = <<"Bearer", " ">> \o bearer_token.s
             /\ \A k \in DOMAIN UserHeaders :
                   k # AUTHORIZATION => headers[k] = UserHeaders[k]
        ELSE IF auth_type = "Basic" /\ basic_user # None
        THEN /\ headers = UserHeaders
             /\ requests_auth # None
             /\ requests_auth.user = basic_user.s
             /\ requests_auth.pwd =
                   IF basic_pass = None THEN <<>> ELSE basic_pass.s
        ELSE /\ headers = UserHeaders
             /\ requests_auth = None

\* Basic with the empty username: credentials ("", password).
C6_Witness ==
    /\ pc = "done"
    /\ outcome = "returned"
    /\ auth_type = "Basic"
    /\ basic_user = Str(<<>>)
    /\ basic_pass = Str(<<"s">>)
    /\ requests_auth # None
    /\ requests_auth.user = <<>>

=============================================================================
